---- MODULE Spec2Model ----
(***************************************************************************)
(* SinricProClass (src/src/SinricPro.h): the client-side protocol engine.  *)
(* The state is the object's fields plus the state of its two transport    *)
(* collaborators; every public operation is one action.  Each action also  *)
(* records what it did to the outside world (transport calls, handler      *)
(* invocations, frames pushed) in trace variables that hold the calls of   *)
(* the most recent operation only.                                         *)
(***************************************************************************)
EXTENDS Integers, Sequences, FiniteSets

VARIABLES
    devices,             \* std::vector<SinricProDeviceInterface*>: the ids, in registration order
    socketAuthToken,     \* AppKey (stored by a successful begin)
    signingKey,          \* AppSecret (stored by a successful begin)
    _begin,              \* bool: the engine's enabled flag
    wsState,             \* the session transport: "idle", "begun" or "connected"
    udpBegun,            \* the discovery transport has been started
    receiveQueue,        \* SinricProQueue_t of inbound frames
    sendQueue,           \* SinricProQueue_t of outbound frames
    baseTimestamp,       \* unsigned long, 0 = unsynchronized
    responseMessageStr,  \* the one-shot pending error message
    millis,              \* the local monotonic clock, in milliseconds
    op,                  \* the operation performed last
    wasSynchronized,     \* baseTimestamp was not 0 when the last operation started
    received,            \* frames taken off receiveQueue by the last operation
    accepted,            \* for each of them, the value sigMatch had
    wsCalls,             \* session-transport begin/stop/handle calls of the last operation
    sent,                \* frames handed to a transport's sendMessage by the last operation
    invoked,             \* capability-handler invocations of the last operation, each with
                         \* what the handler returned and passed to setResponseMessage
    enqueued             \* frames pushed on sendQueue by the last operation

\* RangeController<T> (src/src/Capabilities/RangeController.h): the callback
\* tables of one device with the range capability
VARIABLES
    setRangeValueCallback,             \* SetRangeValueCallback (a function pointer)
    genericSetRangeValueCallback,      \* std::map<String, GenericRangeValueCallback>
    adjustRangeValueCallback,          \* AdjustRangeValueCallback (a function pointer)
    genericAdjustRangeValueCallback,   \* std::map<String, GenericRangeValueCallback>
    rangeRequest,                      \* the request handleRangeController got last
    called,                            \* the callbacks it called
    returned                           \* what it returned

rangeVars == <<setRangeValueCallback, genericSetRangeValueCallback,
               adjustRangeValueCallback, genericAdjustRangeValueCallback,
               rangeRequest, called, returned>>

vars == <<devices, socketAuthToken, signingKey, _begin, wsState, udpBegun,
          receiveQueue, sendQueue, baseTimestamp, responseMessageStr, millis,
          op, wasSynchronized, received, accepted, wsCalls, sent, invoked, enqueued,
          setRangeValueCallback, genericSetRangeValueCallback,
          adjustRangeValueCallback, genericAdjustRangeValueCallback,
          rangeRequest, called, returned>>

----------------------------------------------------------------------------
(* Bounds of the model *)

\* at most this many devices are registered
MaxDevices == 2
\* at most this many frames are queued (inbound and outbound together)
MaxQueued == 2
\* the same, where a longer backlog is explored with fewer kinds of frames
MaxBacklog == 3
\* the local clock advances at most this many half seconds
MaxTicks == 2
\* the largest server timestamp a frame carries
MaxTimestamp == 1
\* the same, where the clock runs past the server's timestamp
MaxClockTicks == 4
\* at most this many devices are registered where only the registry is explored
MaxRegistered == 3

(* Program constants *)

\* unsigned long arithmetic wraps around. The targets' unsigned long has 32 bits,
\* which TLC's integers cannot hold: the model wraps at 16 bits, far above every
\* timestamp and clock value it uses, so that a difference below zero wraps to a
\* large non-zero value as it does on the targets.
ULongMax == 2 ^ 16
\* the clock is read in milliseconds and advances here by half a second
TickMs == 1000 \div 2
\* the length of the literal {"timestamp": that strncmp compares
TimestampPrefixLen == 13
\* the longest frame that is taken for a timestamp frame
TimestampFrameMaxLen == 26
\* the length of a JSON envelope with header, payload and signature (well above 26)
EnvelopeLen == 10 * TimestampFrameMaxLen

----------------------------------------------------------------------------
(* Identifiers and credentials (SinricProId.h is not part of the sources:   *)
(* an id or credential is valid when it has the fixed shape)               *)

InvalidId == "bad-id"
DeviceIds == {"d1", "d2", InvalidId}
ValidAppKey == "app-key"
ValidAppSecret == "app-secret"
AppKeys == {"", ValidAppKey}
AppSecrets == {"", ValidAppSecret}

isValid(id) == id \notin {"", InvalidId}

----------------------------------------------------------------------------
(* Wire data *)

IF_WEBSOCKET == "IF_WEBSOCKET"
IF_UDP == "IF_UDP"

\* what operator[] of an unparsed or absent JSON member yields
NullPayload ==
    [type |-> "null", action |-> "", createdAt |-> 0, deviceId |-> "", replyToken |-> ""]

\* jsonMessage["signature"]["HMAC"] | ""
NoSignature == <<>>

\* calculateSignature(key, payload): a keyed MAC over the exact payload text
calculateSignature(key, payload) == <<"HMAC", key, payload>>

RequestPayload(dev, createdAt) ==
    [type |-> "request", action |-> "setPowerState", createdAt |-> createdAt,
     deviceId |-> dev,
     replyToken |-> IF createdAt = 0 THEN "tok-a-" \o dev ELSE "tok-b-" \o dev]

OtherPayload(type) ==
    [type |-> type, action |-> "setPowerState", createdAt |-> MaxTimestamp,
     deviceId |-> "d1", replyToken |-> "tok-d1"]

\* A frame is its interface tag and what the receive pass reads of its text:
\* whether it starts with the literal {"timestamp":, its length in bytes, whether
\* digits and the closing brace are all that follows the literal, and the members
\* timestamp, signature.HMAC and payload of the parsed document.

\* {"timestamp":T}: the literal prefix and at most 26 bytes, so no payload fits in it
TimestampFrame(iface, t) ==
    [iface |-> iface, prefix |-> TRUE, length |-> TimestampPrefixLen + 2, digits |-> TRUE,
     timestamp |-> t, hmac |-> NoSignature,
     payload |-> NullPayload]

\* a JSON envelope with a payload and a signature object
JsonFrame(iface, hmac, payload) ==
    [iface |-> iface, prefix |-> FALSE, length |-> EnvelopeLen, digits |-> FALSE,
     timestamp |-> 0, hmac |-> hmac, payload |-> payload]

\* text that deserializeJson rejects: every member reads as its default
GarbageFrame(iface) ==
    [iface |-> iface, prefix |-> FALSE, length |-> TimestampPrefixLen, digits |-> FALSE,
     timestamp |-> 0, hmac |-> NoSignature,
     payload |-> NullPayload]

\* a request signed with the stored secret
SignedRequest(iface, dev, createdAt) ==
    JsonFrame(iface, calculateSignature(ValidAppSecret, RequestPayload(dev, createdAt)),
              RequestPayload(dev, createdAt))

\* the frames the session transport may push: the server's timestamp frame,
\* signed requests with and without a timestamp, a request signed with another
\* secret, a signed response, a signed frame of another type, and unparsable text
WebsocketFrames ==
    {TimestampFrame(IF_WEBSOCKET, MaxTimestamp)}
    \cup {SignedRequest(IF_WEBSOCKET, "d1", c) : c \in {0, MaxTimestamp}}
    \cup {JsonFrame(IF_WEBSOCKET,
                    calculateSignature("forged", RequestPayload("d1", MaxTimestamp)),
                    RequestPayload("d1", MaxTimestamp))}
    \cup {JsonFrame(IF_WEBSOCKET, calculateSignature(ValidAppSecret, OtherPayload(t)),
                    OtherPayload(t)) : t \in {"response", "event"}}
    \cup {GarbageFrame(IF_WEBSOCKET)}

\* a frame that starts with the literal and carries a timestamp member, of a given
\* length, without a signature: {"timestamp":T,"a":1} or the same padded with spaces
PrefixedFrame(iface, t, length) ==
    [iface |-> iface, prefix |-> TRUE, length |-> length, digits |-> FALSE,
     timestamp |-> t, hmac |-> NoSignature, payload |-> NullPayload]

\* the frames that probe the signature gate: the server's timestamp frame; frames
\* with the literal prefix and other content, of 26 and of 27 bytes; a signed
\* request; the same request signed with another secret, carrying the signature
\* of another payload, and carrying no signature
GateFrames ==
    {TimestampFrame(IF_WEBSOCKET, MaxTimestamp),
     PrefixedFrame(IF_WEBSOCKET, MaxTimestamp, TimestampFrameMaxLen),
     PrefixedFrame(IF_WEBSOCKET, MaxTimestamp, TimestampFrameMaxLen + 1),
     SignedRequest(IF_WEBSOCKET, "d1", MaxTimestamp),
     JsonFrame(IF_WEBSOCKET,
               calculateSignature("forged", RequestPayload("d1", MaxTimestamp)),
               RequestPayload("d1", MaxTimestamp)),
     JsonFrame(IF_WEBSOCKET,
               calculateSignature(ValidAppSecret, RequestPayload("d1", 0)),
               RequestPayload("d1", MaxTimestamp)),
     JsonFrame(IF_WEBSOCKET, NoSignature, RequestPayload("d1", MaxTimestamp))}

\* the frames the discovery transport may push
UdpFrames ==
    {SignedRequest(IF_UDP, "d1", 0)}

\* what a capability handler may do: return success or failure, and call
\* setResponseMessage or not
HandlerOutcomes == [success : BOOLEAN, message : {"", "custom error"}]

GenericError == "Device returned an error while processing the request!"

----------------------------------------------------------------------------
(* The engine's operations, as functions of the state record s (the fields  *)
(* of the object, the transports' state and the traces of this operation)  *)

isConnected(s) == s.wsState = "connected"

\* getTimestamp(): baseTimestamp + millis()/1000, in unsigned long
getTimestamp(s, ms) == (s.baseTimestamp + (ms \div 1000)) % ULongMax

\* getDevice() returning the record registered last with this id
getDevice_last(s, deviceId) ==
    IF \E i \in 1..Len(s.devices) : s.devices[i] = deviceId
    THEN CHOOSE i \in 1..Len(s.devices) :
            /\ s.devices[i] = deviceId
            /\ \A j \in (i + 1)..Len(s.devices) : s.devices[j] # deviceId
    ELSE 0

\* getDevice(): the index of the first record with this id, 0 for nullptr
getDevice(s, deviceId) ==
    IF \E i \in 1..Len(s.devices) : s.devices[i] = deviceId
    THEN CHOOSE i \in 1..Len(s.devices) :
            /\ s.devices[i] = deviceId
            /\ \A j \in 1..(i - 1) : s.devices[j] # deviceId
    ELSE 0

\* connect() listing every registered device
connect_allDevices(s) ==
    IF Len(SelectSeq(s.devices, isValid)) = 0
    THEN [s EXCEPT !._begin = FALSE]
    ELSE [s EXCEPT !.wsState = "begun",
                   !.wsCalls = Append(@, [call |-> "begin", deviceList |-> s.devices])]

\* connect() without its check for an empty device list
connect_noDeviceCheck(s) ==
    [s EXCEPT !.wsState = "begun",
              !.wsCalls = Append(@, [call |-> "begin",
                                     deviceList |-> SelectSeq(s.devices, isValid)])]

\* connect(): the list of the valid ids; none: disable, else begin the session transport
connect(s) ==
    LET deviceList == SelectSeq(s.devices, isValid)
    IN  IF Len(deviceList) = 0
        THEN [s EXCEPT !._begin = FALSE]
        ELSE [s EXCEPT !.wsState = "begun",
                       !.wsCalls = Append(@, [call |-> "begin", deviceList |-> deviceList])]

\* stop() that stops the transport and leaves the engine enabled
stop_keepsEnabled(s) ==
    [s EXCEPT !.wsState = "idle",
              !.wsCalls = Append(@, [call |-> "stop", deviceList |-> <<>>])]

stop(s) ==
    [s EXCEPT !._begin = FALSE,
              !.wsState = "idle",
              !.wsCalls = Append(@, [call |-> "stop", deviceList |-> <<>>])]

reconnect(s) == connect(stop(s))

\* add<DeviceType>(deviceId) enabling the engine for every valid id
add_ignoresCredentials(s, deviceId) ==
    [s EXCEPT !._begin = IF isValid(deviceId) THEN TRUE ELSE @,
              !.devices = Append(@, deviceId)]

\* add<DeviceType>(deviceId)
add(s, deviceId) ==
    LET enabled == IF isValid(deviceId) /\ isValid(s.socketAuthToken) /\ isValid(s.signingKey)
                   THEN TRUE
                   ELSE s._begin
    IN  [s EXCEPT !._begin = enabled, !.devices = Append(@, deviceId)]

\* add(SinricProDeviceInterface*) and add(SinricProDeviceInterface&), deprecated:
\* a device with an invalid id is not registered
addObject(s, deviceId) ==
    IF ~isValid(deviceId)
    THEN s
    ELSE [s EXCEPT !.devices = Append(@, deviceId)]

\* getDeviceInstance() reconnecting before it registers the device
getDeviceInstance_reconnectBeforeAdd(s, deviceId) ==
    IF getDevice(s, deviceId) # 0
    THEN s
    ELSE add(IF isConnected(s) THEN reconnect(s) ELSE s, deviceId)

\* getDeviceInstance<DeviceType>(deviceId), reached through operator[]
getDeviceInstance(s, deviceId) ==
    IF getDevice(s, deviceId) # 0
    THEN s
    ELSE LET added == add(s, deviceId)
         IN  IF isConnected(added) THEN reconnect(added) ELSE added

begin(s, appKey, appSecret) ==
    IF ~isValid(appKey) \/ ~isValid(appSecret)
    THEN [s EXCEPT !._begin = FALSE]
    ELSE [s EXCEPT !.socketAuthToken = appKey,
                   !.signingKey = appSecret,
                   !._begin = TRUE,
                   !.udpBegun = TRUE]

\* prepareResponse() with a token of its own
prepareResponse_ownToken(request) ==
    [type |-> "response", action |-> request.action, createdAt |-> 0,
     deviceId |-> request.deviceId, replyToken |-> "msg-id",
     success |-> FALSE, message |-> "OK"]

prepareResponse(request) ==
    [type |-> "response", action |-> request.action, createdAt |-> 0,
     deviceId |-> request.deviceId, replyToken |-> request.replyToken,
     success |-> FALSE, message |-> "OK"]

prepareEvent(deviceId, action, cause) ==
    [type |-> "event", action |-> action, createdAt |-> 0, deviceId |-> deviceId,
     replyToken |-> "msg-id", cause |-> cause]

\* sendMessage(): an event is queued for the session transport, or dropped when offline
sendMessage(s, jsonMessage) ==
    IF ~isConnected(s)
    THEN s
    ELSE LET m == [iface |-> IF_WEBSOCKET, msg |-> jsonMessage]
         IN  [s EXCEPT !.sendQueue = Append(@, m), !.enqueued = Append(@, m)]

\* extractTimestamp() storing the server's time without subtracting the uptime
extractTimestamp_noUptime(s, message, ms) ==
    IF message.timestamp # 0
    THEN [s EXCEPT !.baseTimestamp = message.timestamp % ULongMax]
    ELSE IF message.payload.createdAt # 0
         THEN [s EXCEPT !.baseTimestamp = message.payload.createdAt % ULongMax]
         ELSE s

\* extractTimestamp() preferring the payload's createdAt to the timestamp
extractTimestamp_createdAtFirst(s, message, ms) ==
    IF message.payload.createdAt # 0
    THEN [s EXCEPT !.baseTimestamp =
                       (message.payload.createdAt - (ms \div 1000)) % ULongMax]
    ELSE IF message.timestamp # 0
         THEN [s EXCEPT !.baseTimestamp = (message.timestamp - (ms \div 1000)) % ULongMax]
         ELSE s

extractTimestamp(s, message, ms) ==
    IF message.timestamp # 0
    THEN [s EXCEPT !.baseTimestamp = (message.timestamp - (ms \div 1000)) % ULongMax]
    ELSE IF message.payload.createdAt # 0
         THEN [s EXCEPT !.baseTimestamp =
                            (message.payload.createdAt - (ms \div 1000)) % ULongMax]
         ELSE s

\* the loop of handleRequest over the registry, from record i on: acc holds the
\* locals success and responseMessage; outcome[i] is what device i's handler does
RECURSIVE deviceLoop(_, _, _, _, _, _)
deviceLoop(s, acc, request, outcome, n, i) ==
    IF i > Len(s.devices)
    THEN [s |-> s, acc |-> acc]
    ELSE IF s.devices[i] = request.deviceId /\ acc.success = FALSE
         THEN LET pending == IF outcome[i].message # ""
                             THEN outcome[i].message
                             ELSE s.responseMessageStr
                  success == outcome[i].success
                  message == IF success THEN acc.response.message
                             ELSE IF pending # "" THEN pending ELSE GenericError
                  s1 == [s EXCEPT !.responseMessageStr =
                                      IF ~success /\ pending # "" THEN "" ELSE pending,
                                  !.invoked = Append(@, [frame |-> n, device |-> i,
                                                        success |-> success,
                                                        message |-> outcome[i].message])]
                  acc1 == [success |-> success,
                           response |-> [acc.response EXCEPT !.success = success,
                                                             !.message = message]]
              IN  deviceLoop(s1, acc1, request, outcome, n, i + 1)
         ELSE deviceLoop(s, acc, request, outcome, n, i + 1)

\* handleRequest() answering only when a device handled the request
handleRequest_onlyWhenMatched(s, message, outcome, n) ==
    LET r == deviceLoop(s, [success |-> FALSE, response |-> prepareResponse(message.payload)],
                        message.payload, outcome, n, 1)
        m == [iface |-> message.iface, msg |-> r.acc.response]
    IN  IF r.s.invoked = s.invoked
        THEN r.s
        ELSE [r.s EXCEPT !.sendQueue = Append(@, m),
                         !.enqueued = Append(@, [frame |-> n, iface |-> m.iface,
                                                 msg |-> m.msg])]

\* handleRequest() for the n-th frame of the batch: one response is always pushed
handleRequest(s, message, outcome, n) ==
    LET r == deviceLoop(s, [success |-> FALSE, response |-> prepareResponse(message.payload)],
                        message.payload, outcome, n, 1)
        m == [iface |-> message.iface, msg |-> r.acc.response]
    IN  [r.s EXCEPT !.sendQueue = Append(@, m),
                    !.enqueued = Append(@, [frame |-> n, iface |-> m.iface, msg |-> m.msg])]

\* the signature gate looking only at the secret a signature was made with
sigMatch_keyOnly(s, rawMessage) ==
    IF rawMessage.prefix /\ rawMessage.length <= TimestampFrameMaxLen
    THEN TRUE
    ELSE rawMessage.hmac # NoSignature /\ rawMessage.hmac[2] = s.signingKey

\* the signature gate without its check of the frame's length
sigMatch_prefixOnly(s, rawMessage) ==
    IF rawMessage.prefix
    THEN TRUE
    ELSE calculateSignature(s.signingKey, rawMessage.payload) = rawMessage.hmac

\* the signature gate: a frame with the literal prefix and at most 26 bytes passes
\* unsigned, anything else must carry the MAC of its payload under the stored secret
sigMatch(s, rawMessage) ==
    IF rawMessage.prefix /\ rawMessage.length <= TimestampFrameMaxLen
    THEN TRUE
    ELSE calculateSignature(s.signingKey, rawMessage.payload) = rawMessage.hmac

\* the loop's body without the signature gate
receiveFrame_noGate(s, rawMessage, outcome, ms, n) ==
    LET s1 == extractTimestamp(s, rawMessage, ms)
    IN  IF rawMessage.payload.type = "request"
        THEN handleRequest(s1, rawMessage, outcome, n)
        ELSE s1

\* the loop's body reading the timestamp before it looks at the gate
receiveFrame_timestampFirst(s, rawMessage, outcome, ms, n) ==
    LET s1 == extractTimestamp(s, rawMessage, ms)
    IN  IF sigMatch(s, rawMessage)
        THEN IF rawMessage.payload.type = "request"
             THEN handleRequest(s1, rawMessage, outcome, n)
             ELSE s1
        ELSE s1

\* the body of handleReceiveQueue's loop for the n-th frame of the batch
receiveFrame(s, rawMessage, outcome, ms, n) ==
    IF sigMatch(s, rawMessage)
    THEN LET s1 == extractTimestamp(s, rawMessage, ms)
         IN  IF rawMessage.payload.type = "request"
             THEN handleRequest(s1, rawMessage, outcome, n)
             ELSE s1
    ELSE s

\* the handlers that a request can reach are the only ones whose outcome matters
OutcomesFor(s, rawMessage, outcomes) ==
    {o \in [1..Len(s.devices) -> outcomes \cup {[success |-> TRUE, message |-> ""]}] :
        \A i \in 1..Len(s.devices) :
            s.devices[i] # rawMessage.payload.deviceId
                => o[i] = [success |-> TRUE, message |-> ""]}

\* handleReceiveQueue() leaving the loop at the first frame that fails the gate
RECURSIVE handleReceiveQueue_stopAtRejected(_, _, _, _)
handleReceiveQueue_stopAtRejected(s, ms, outcomes, n) ==
    IF Len(s.receiveQueue) = 0 \/ ~sigMatch(s, Head(s.receiveQueue))
    THEN {s}
    ELSE LET rawMessage == Head(s.receiveQueue)
             popped == [s EXCEPT !.receiveQueue = Tail(@),
                                 !.received = Append(@, rawMessage),
                                 !.accepted = Append(@, TRUE)]
         IN  UNION {handleReceiveQueue_stopAtRejected(
                        receiveFrame(popped, rawMessage, o, ms, n), ms, outcomes, n + 1) :
                        o \in OutcomesFor(s, rawMessage, outcomes)}

\* handleReceiveQueue(): drains the queue front to back; the set of the states it
\* can end in, one for each choice of the handlers' outcomes
RECURSIVE handleReceiveQueue(_, _, _, _)
handleReceiveQueue(s, ms, outcomes, n) ==
    IF Len(s.receiveQueue) = 0
    THEN {s}
    ELSE LET rawMessage == Head(s.receiveQueue)
             popped == [s EXCEPT !.receiveQueue = Tail(@),
                                 !.received = Append(@, rawMessage),
                                 !.accepted = Append(@, sigMatch(s, rawMessage))]
         IN  UNION {handleReceiveQueue(receiveFrame(popped, rawMessage, o, ms, n),
                                       ms, outcomes, n + 1) :
                        o \in OutcomesFor(s, rawMessage, outcomes)}

\* the switch of handleSendQueue: the transport whose sendMessage gets the frame
transportOf(iface) ==
    CASE iface = IF_WEBSOCKET -> "_websocketListener"
      [] iface = IF_UDP -> "_udpListener"
      [] OTHER -> "none"

\* handleSendQueue() handing every frame to the session transport
RECURSIVE handleSendQueue_allToWebsocket(_, _)
handleSendQueue_allToWebsocket(s, ms) ==
    IF ~isConnected(s) \/ s.baseTimestamp = 0 \/ Len(s.sendQueue) = 0
    THEN s
    ELSE LET rawMessage == Head(s.sendQueue)
             stamped == [rawMessage.msg EXCEPT !.createdAt = getTimestamp(s, ms)]
             out == [iface |-> rawMessage.iface, to |-> "_websocketListener",
                     msg |-> stamped,
                     hmac |-> calculateSignature(s.signingKey, stamped)]
         IN  handleSendQueue_allToWebsocket([s EXCEPT !.sendQueue = Tail(@),
                                                      !.sent = Append(@, out)], ms)

\* handleSendQueue() without its check of baseTimestamp
RECURSIVE handleSendQueue_noSyncGate(_, _)
handleSendQueue_noSyncGate(s, ms) ==
    IF ~isConnected(s) \/ Len(s.sendQueue) = 0
    THEN s
    ELSE LET rawMessage == Head(s.sendQueue)
             stamped == [rawMessage.msg EXCEPT !.createdAt = getTimestamp(s, ms)]
             out == [iface |-> rawMessage.iface, to |-> transportOf(rawMessage.iface),
                     msg |-> stamped,
                     hmac |-> calculateSignature(s.signingKey, stamped)]
         IN  handleSendQueue_noSyncGate([s EXCEPT !.sendQueue = Tail(@),
                                                  !.sent = Append(@, out)], ms)

\* handleSendQueue() without its check of the connection
RECURSIVE handleSendQueue_noConnectionGate(_, _)
handleSendQueue_noConnectionGate(s, ms) ==
    IF s.baseTimestamp = 0 \/ Len(s.sendQueue) = 0
    THEN s
    ELSE LET rawMessage == Head(s.sendQueue)
             stamped == [rawMessage.msg EXCEPT !.createdAt = getTimestamp(s, ms)]
             out == [iface |-> rawMessage.iface, to |-> transportOf(rawMessage.iface),
                     msg |-> stamped,
                     hmac |-> calculateSignature(s.signingKey, stamped)]
         IN  handleSendQueue_noConnectionGate([s EXCEPT !.sendQueue = Tail(@),
                                                        !.sent = Append(@, out)], ms)

\* handleSendQueue() taking the frames from the back of the queue
RECURSIVE handleSendQueue_backFirst(_, _)
handleSendQueue_backFirst(s, ms) ==
    IF ~isConnected(s) \/ s.baseTimestamp = 0 \/ Len(s.sendQueue) = 0
    THEN s
    ELSE LET rawMessage == s.sendQueue[Len(s.sendQueue)]
             stamped == [rawMessage.msg EXCEPT !.createdAt = getTimestamp(s, ms)]
             out == [iface |-> rawMessage.iface, to |-> transportOf(rawMessage.iface),
                     msg |-> stamped,
                     hmac |-> calculateSignature(s.signingKey, stamped)]
         IN  handleSendQueue_backFirst(
                [s EXCEPT !.sendQueue = SubSeq(@, 1, Len(@) - 1),
                          !.sent = Append(@, out)], ms)

\* handleSendQueue() signing the frame as it was queued and stamping it afterwards
RECURSIVE handleSendQueue_signBeforeStamp(_, _)
handleSendQueue_signBeforeStamp(s, ms) ==
    IF ~isConnected(s) \/ s.baseTimestamp = 0 \/ Len(s.sendQueue) = 0
    THEN s
    ELSE LET rawMessage == Head(s.sendQueue)
             stamped == [rawMessage.msg EXCEPT !.createdAt = getTimestamp(s, ms)]
             out == [iface |-> rawMessage.iface, to |-> transportOf(rawMessage.iface),
                     msg |-> stamped,
                     hmac |-> calculateSignature(s.signingKey, rawMessage.msg)]
         IN  handleSendQueue_signBeforeStamp(
                 [s EXCEPT !.sendQueue = Tail(@),
                           !.sent = IF rawMessage.iface \in {IF_WEBSOCKET, IF_UDP}
                                    THEN Append(@, out) ELSE @],
                 ms)

\* handleSendQueue(): when connected and synchronized, every queued frame is
\* stamped, signed and handed to the transport of its interface, front first
RECURSIVE handleSendQueue(_, _)
handleSendQueue(s, ms) ==
    IF ~isConnected(s) \/ s.baseTimestamp = 0 \/ Len(s.sendQueue) = 0
    THEN s
    ELSE LET rawMessage == Head(s.sendQueue)
             stamped == [rawMessage.msg EXCEPT !.createdAt = getTimestamp(s, ms)]
             out == [iface |-> rawMessage.iface, to |-> transportOf(rawMessage.iface),
                     msg |-> stamped,
                     hmac |-> calculateSignature(s.signingKey, stamped)]
         IN  handleSendQueue([s EXCEPT !.sendQueue = Tail(@),
                                       !.sent = IF rawMessage.iface \in {IF_WEBSOCKET, IF_UDP}
                                                THEN Append(@, out) ELSE @],
                             ms)

\* _websocketListener.handle(): the session transport's poll, in which a begun
\* connection may come up and an established one may drop
websocketHandle(s) ==
    {[s EXCEPT !.wsState = w,
               !.wsCalls = Append(@, [call |-> "handle", deviceList |-> <<>>])] :
        w \in CASE s.wsState = "idle" -> {"idle"}
                [] s.wsState = "begun" -> {"begun", "connected"}
                [] OTHER -> {"connected", "begun"}}

\* handle() with the send pass before the receive pass
handle_sendFirst(s, ms, outcomes) ==
    IF ~s._begin
    THEN {s}
    ELSE LET s1 == IF ~isConnected(s) THEN connect(s) ELSE s
         IN  UNION {handleReceiveQueue(handleSendQueue(s2, ms), ms, outcomes, 1) :
                        s2 \in websocketHandle(s1)}

\* handle(): the poll call
handle(s, ms, outcomes) ==
    IF ~s._begin
    THEN {s}
    ELSE LET s1 == IF ~isConnected(s) THEN connect(s) ELSE s
         IN  UNION {{handleSendQueue(s3, ms) : s3 \in handleReceiveQueue(s2, ms, outcomes, 1)} :
                        s2 \in websocketHandle(s1)}

----------------------------------------------------------------------------
(* RangeController<T>: the callback tables and handleRangeController *)

\* the functions a sketch registers as callbacks
Callbacks == {"cbA", "cbB"}
\* the instance ids of the device's range capabilities
Instances == {"i1", "i2"}

\* a function pointer member that no constructor and no initializer sets: its
\* value is indeterminate until onRangeValue or onAdjustRangeValue assigns it
Indeterminate == "indeterminate"

\* the std::map has no entry for the instance
NotRegistered == [type |-> "none", cb |-> "none"]
\* GenericRangeValueCallback(): what operator[] inserts for a missing key
DefaultEntry == [type |-> "type_unknown", cb |-> "none"]
\* GenericRangeValueCallback(cb) for the int and the float overload
CallbackEntries == [type : {"type_int", "type_float"}, cb : Callbacks]

\* the requests a device is handed: action, instance ("" for none) and the
\* rangeValue or rangeValueDelta of the request's value object
RangeRequests ==
    [action : {"setRangeValue", "adjustRangeValue", "setPowerState"},
     instance : {""} \cup Instances,
     value : {5}]
NoRequest == [action |-> "", instance |-> "", value |-> 0]

\* the call of a callback that returns ret
callRange(rc, cb, request, ret) ==
    [rc EXCEPT !.called = Append(@, [cb |-> cb, instance |-> request.instance,
                                     value |-> request.value]),
               !.returned = ret]

\* if (pointer) success = pointer(deviceId, value); return success;
\* an indeterminate pointer may test as null, and may be called
viaPointer(rc, pointer, request, ret) ==
    IF pointer = Indeterminate
    THEN {[rc EXCEPT !.returned = FALSE], callRange(rc, Indeterminate, request, ret)}
    ELSE {callRange(rc, pointer, request, ret)}

\* the two ifs on cb.type: a typed entry is called, any other falls through to
\* the return false at the end
viaEntry(rc, entry, request, ret) ==
    IF entry.type \in {"type_float", "type_int"}
    THEN callRange(rc, entry.cb, request, ret)
    ELSE [rc EXCEPT !.returned = FALSE]

\* handleRangeController(request): the set of the states it can end in
handleRangeController(rc, request, ret) ==
    CASE request.action = "setRangeValue" ->
            IF request.instance = ""
            THEN viaPointer(rc, rc.setRangeValueCallback, request, ret)
            ELSE IF rc.genericSetRangeValueCallback[request.instance] = NotRegistered
                 THEN {[rc EXCEPT !.returned = FALSE]}
                 ELSE {viaEntry(rc, rc.genericSetRangeValueCallback[request.instance],
                                request, ret)}
      [] request.action = "adjustRangeValue" ->
            IF request.instance = ""
            THEN viaPointer(rc, rc.setRangeValueCallback, request, ret)
            ELSE IF rc.genericSetRangeValueCallback[request.instance] = NotRegistered
                 THEN {[rc EXCEPT !.returned = FALSE]}
                 ELSE LET inserted ==
                            [rc EXCEPT !.genericAdjustRangeValueCallback[request.instance] =
                                            IF @ = NotRegistered THEN DefaultEntry ELSE @]
                      IN  {viaEntry(inserted,
                                    inserted.genericAdjustRangeValueCallback[request.instance],
                                    request, ret)}
      [] OTHER -> {[rc EXCEPT !.returned = FALSE]}

----------------------------------------------------------------------------
(* The state machine *)

\* the state an operation starts from: the current fields, and empty traces
Cur ==
    [devices |-> devices, socketAuthToken |-> socketAuthToken, signingKey |-> signingKey,
     _begin |-> _begin, wsState |-> wsState, udpBegun |-> udpBegun,
     receiveQueue |-> receiveQueue, sendQueue |-> sendQueue,
     baseTimestamp |-> baseTimestamp, responseMessageStr |-> responseMessageStr,
     received |-> <<>>, accepted |-> <<>>, wsCalls |-> <<>>, sent |-> <<>>, invoked |-> <<>>,
     enqueued |-> <<>>]

\* the state an operation ends in
Becomes(s, name) ==
    /\ devices' = s.devices
    /\ socketAuthToken' = s.socketAuthToken
    /\ signingKey' = s.signingKey
    /\ _begin' = s._begin
    /\ wsState' = s.wsState
    /\ udpBegun' = s.udpBegun
    /\ receiveQueue' = s.receiveQueue
    /\ sendQueue' = s.sendQueue
    /\ baseTimestamp' = s.baseTimestamp
    /\ responseMessageStr' = s.responseMessageStr
    /\ received' = s.received
    /\ accepted' = s.accepted
    /\ wsCalls' = s.wsCalls
    /\ sent' = s.sent
    /\ invoked' = s.invoked
    /\ enqueued' = s.enqueued
    /\ op' = name
    /\ wasSynchronized' = (baseTimestamp # 0)
    /\ UNCHANGED millis
    /\ UNCHANGED rangeVars

Queued == Len(receiveQueue) + Len(sendQueue)

Init ==
    /\ devices = <<>>
    /\ socketAuthToken = ""
    /\ signingKey = ""
    /\ _begin = FALSE
    /\ wsState = "idle"
    /\ udpBegun = FALSE
    /\ receiveQueue = <<>>
    /\ sendQueue = <<>>
    /\ baseTimestamp = 0
    /\ responseMessageStr = ""
    /\ millis = 0
    /\ op = "init"
    /\ wasSynchronized = FALSE
    /\ received = <<>>
    /\ accepted = <<>>
    /\ wsCalls = <<>>
    /\ sent = <<>>
    /\ invoked = <<>>
    /\ enqueued = <<>>
    /\ setRangeValueCallback = Indeterminate
    /\ genericSetRangeValueCallback = [i \in Instances |-> NotRegistered]
    /\ adjustRangeValueCallback = Indeterminate
    /\ genericAdjustRangeValueCallback = [i \in Instances |-> NotRegistered]
    /\ rangeRequest = NoRequest
    /\ called = <<>>
    /\ returned = FALSE

Begin ==
    \E appKey \in AppKeys, appSecret \in AppSecrets :
        Becomes(begin(Cur, appKey, appSecret), "begin")

AddUpTo(ids, maxDevices) ==
    /\ Len(devices) < maxDevices
    /\ \E deviceId \in ids : Becomes(add(Cur, deviceId), "add")

Add(ids) == AddUpTo(ids, MaxDevices)

\* the deprecated overloads, called with a device object that has this id
AddObject(ids, maxDevices) ==
    /\ Len(devices) < maxDevices
    /\ \E deviceId \in ids : Becomes(addObject(Cur, deviceId), "addObject")

GetDeviceInstance(ids) ==
    \E deviceId \in ids :
        /\ getDevice(Cur, deviceId) # 0 \/ Len(devices) < MaxDevices
        /\ Becomes(getDeviceInstance(Cur, deviceId), "getDeviceInstance")

Handle(outcomes) ==
    \E s \in handle(Cur, millis, outcomes) : Becomes(s, "handle")

Stop ==
    Becomes(stop(Cur), "stop")

\* a registered device with a valid id reports a state change
SendEvent(maxQueued) ==
    /\ Queued < maxQueued
    /\ \E i \in 1..Len(devices) :
        /\ isValid(devices[i])
        /\ Becomes(sendMessage(Cur, prepareEvent(devices[i], "setPowerState",
                                                 "PHYSICAL_INTERACTION")), "sendEvent")

\* the session transport pushes a frame it received
WebsocketFrame(frames, maxQueued) ==
    /\ wsState = "connected"
    /\ Queued < maxQueued
    /\ \E f \in frames :
        Becomes([Cur EXCEPT !.receiveQueue = Append(@, f)], "env")

\* the discovery transport pushes a frame it received
UdpFrame(frames, maxQueued) ==
    /\ udpBegun
    /\ Queued < maxQueued
    /\ \E f \in frames :
        Becomes([Cur EXCEPT !.receiveQueue = Append(@, f)], "env")

\* the local clock advances
TickUpTo(maxTicks) ==
    /\ millis < maxTicks * TickMs
    /\ millis' = millis + TickMs
    /\ op' = "env"
    /\ wasSynchronized' = (baseTimestamp # 0)
    /\ received' = <<>> /\ accepted' = <<>> /\ wsCalls' = <<>> /\ sent' = <<>>
    /\ invoked' = <<>> /\ enqueued' = <<>>
    /\ UNCHANGED <<devices, socketAuthToken, signingKey, _begin, wsState, udpBegun,
                   receiveQueue, sendQueue, baseTimestamp, responseMessageStr>>
    /\ UNCHANGED rangeVars

Tick == TickUpTo(MaxTicks)

\* the state a RangeController operation starts from
CurRange ==
    [setRangeValueCallback |-> setRangeValueCallback,
     genericSetRangeValueCallback |-> genericSetRangeValueCallback,
     adjustRangeValueCallback |-> adjustRangeValueCallback,
     genericAdjustRangeValueCallback |-> genericAdjustRangeValueCallback,
     called |-> <<>>, returned |-> FALSE]

\* the state a RangeController operation ends in; the engine is left alone
RangeBecomes(rc, request, name) ==
    /\ setRangeValueCallback' = rc.setRangeValueCallback
    /\ genericSetRangeValueCallback' = rc.genericSetRangeValueCallback
    /\ adjustRangeValueCallback' = rc.adjustRangeValueCallback
    /\ genericAdjustRangeValueCallback' = rc.genericAdjustRangeValueCallback
    /\ called' = rc.called
    /\ returned' = rc.returned
    /\ rangeRequest' = request
    /\ op' = name
    /\ wasSynchronized' = (baseTimestamp # 0)
    /\ received' = <<>> /\ accepted' = <<>> /\ wsCalls' = <<>> /\ sent' = <<>>
    /\ invoked' = <<>> /\ enqueued' = <<>>
    /\ UNCHANGED <<devices, socketAuthToken, signingKey, _begin, wsState, udpBegun,
                   receiveQueue, sendQueue, baseTimestamp, responseMessageStr, millis>>

\* onRangeValue(cb)
OnRangeValue ==
    \E cb \in Callbacks :
        RangeBecomes([CurRange EXCEPT !.setRangeValueCallback = cb], NoRequest,
                     "onRangeValue")

\* onRangeValue(instance, cb), for the int and the float callback type
OnRangeValueInstance ==
    \E instance \in Instances, entry \in CallbackEntries :
        RangeBecomes([CurRange EXCEPT !.genericSetRangeValueCallback[instance] = entry],
                     NoRequest, "onRangeValueInstance")

\* onAdjustRangeValue(cb)
OnAdjustRangeValue ==
    \E cb \in Callbacks :
        RangeBecomes([CurRange EXCEPT !.adjustRangeValueCallback = cb], NoRequest,
                     "onAdjustRangeValue")

\* onAdjustRangeValue(instance, cb), for the int and the float callback type
OnAdjustRangeValueInstance ==
    \E instance \in Instances, entry \in CallbackEntries :
        RangeBecomes([CurRange EXCEPT !.genericAdjustRangeValueCallback[instance] = entry],
                     NoRequest, "onAdjustRangeValueInstance")

\* the device hands a request to its range capability; the callback, if one is
\* called, returns ret
HandleRangeController ==
    \E request \in RangeRequests, ret \in BOOLEAN :
        \E rc \in handleRangeController(CurRange, request, ret) :
            RangeBecomes(rc, request, "handleRangeController")

\* handlers that succeed or fail without setting a message
PlainOutcomes == [success : BOOLEAN, message : {""}]

(* The engine with every device id and every kind of inbound frame *)

Next ==
    \/ Begin
    \/ Add(DeviceIds)
    \/ GetDeviceInstance(DeviceIds)
    \/ Handle(PlainOutcomes)
    \/ Stop
    \/ SendEvent(MaxQueued)
    \/ WebsocketFrame(WebsocketFrames, MaxQueued)
    \/ UdpFrame(UdpFrames, MaxQueued)
    \/ Tick

Spec == Init /\ [][Next]_vars

(* The engine with a longer backlog of frames: one device id, and the       *)
(* transports push only timestamp frames and signed requests.               *)

NextBacklog ==
    \/ Begin
    \/ Add({"d1"})
    \/ GetDeviceInstance({"d1"})
    \/ Handle(PlainOutcomes)
    \/ Stop
    \/ SendEvent(MaxBacklog)
    \/ WebsocketFrame({TimestampFrame(IF_WEBSOCKET, MaxTimestamp),
                       SignedRequest(IF_WEBSOCKET, "d1", 0),
                       SignedRequest(IF_WEBSOCKET, "d1", MaxTimestamp)}, MaxBacklog)
    \/ UdpFrame(UdpFrames, MaxBacklog)
    \/ Tick

SpecBacklog == Init /\ [][NextBacklog]_vars

(* The engine with the frames that probe the signature gate and a clock     *)
(* that runs past the server's timestamp: one device id.                    *)

NextGate ==
    \/ Begin
    \/ Add({"d1"})
    \/ GetDeviceInstance({"d1"})
    \/ Handle(PlainOutcomes)
    \/ Stop
    \/ SendEvent(MaxQueued)
    \/ WebsocketFrame(GateFrames, MaxQueued)
    \/ UdpFrame(UdpFrames, MaxQueued)
    \/ TickUpTo(MaxClockTicks)

SpecGate == Init /\ [][NextGate]_vars

(* The registry and the connection, without frames: every way to register   *)
(* a device, with up to three devices.                                      *)

NextRegistry ==
    \/ Begin
    \/ AddUpTo(DeviceIds, MaxRegistered)
    \/ AddObject(DeviceIds, MaxRegistered)
    \/ GetDeviceInstance(DeviceIds)
    \/ Handle(PlainOutcomes)
    \/ Stop

SpecRegistry == Init /\ [][NextRegistry]_vars

(* The engine with handlers that call setResponseMessage: two device ids,   *)
(* and the session transport pushes timestamp frames and signed requests.   *)

MessageFrames ==
    {TimestampFrame(IF_WEBSOCKET, MaxTimestamp)}
    \cup {SignedRequest(IF_WEBSOCKET, d, 0) : d \in {"d1", "d2"}}

NextMessages ==
    \/ Begin
    \/ Add({"d1", "d2"})
    \/ Handle(HandlerOutcomes)
    \/ Stop
    \/ WebsocketFrame(MessageFrames, MaxQueued)

SpecMessages == Init /\ [][NextMessages]_vars

(* The engine with the frames that move the clock: one device id; timestamp *)
(* frames with the server's time and with the last value before the         *)
(* counter wraps; signed requests that carry no time, a createdAt alone,    *)
(* and a top-level timestamp next to a different createdAt.                 *)

\* a signed request whose envelope also has a top-level timestamp member
StampedRequest(iface, dev, t, createdAt) ==
    [SignedRequest(iface, dev, createdAt) EXCEPT !.timestamp = t]

ClockFrames ==
    {TimestampFrame(IF_WEBSOCKET, MaxTimestamp),
     TimestampFrame(IF_WEBSOCKET, ULongMax - 1),
     SignedRequest(IF_WEBSOCKET, "d1", 0),
     SignedRequest(IF_WEBSOCKET, "d1", MaxTimestamp + 1),
     StampedRequest(IF_WEBSOCKET, "d1", MaxTimestamp, MaxTimestamp + 1)}

NextClock ==
    \/ Begin
    \/ Add({"d1"})
    \/ Handle(PlainOutcomes)
    \/ Stop
    \/ SendEvent(MaxQueued)
    \/ WebsocketFrame(ClockFrames, MaxQueued)
    \/ TickUpTo(MaxClockTicks)

SpecClock == Init /\ [][NextClock]_vars

(* A device with the range capability: registrations and requests *)

NextRange ==
    \/ OnRangeValue
    \/ OnRangeValueInstance
    \/ OnAdjustRangeValue
    \/ OnAdjustRangeValueInstance
    \/ HandleRangeController

SpecRange == Init /\ [][NextRange]_vars

----------------------------------------------------------------------------
(* Properties *)

\* the queue q2 is the queue q1 with frames pushed at its back
Extends(q2, q1) ==
    /\ Len(q2) >= Len(q1)
    /\ SubSeq(q2, 1, Len(q1)) = q1

\* the frames of a trace, as they sit in the send queue
Pushed(trace) == [i \in 1..Len(trace) |-> [iface |-> trace[i].iface, msg |-> trace[i].msg]]

\* a sent frame before the send pass stamped and signed it
Unstamped(out) == [iface |-> out.iface, msg |-> [out.msg EXCEPT !.createdAt = 0]]

\* the poll call got past its check of the enabled flag
PollRan == op = "handle" /\ Len(wsCalls) > 0

(* C1: while baseTimestamp is 0, no operation hands a frame to a transport   *)
(* and no operation shortens the outbound queue: every step that ends with  *)
(* baseTimestamp = 0 has sent nothing and has left the frames that were     *)
(* queued in place, in order.                                               *)
C1_UnsynchronizedHoldsOutbound ==
    [][baseTimestamp' = 0 => sent' = <<>> /\ Extends(sendQueue', sendQueue)]_vars

\* a poll ran with the transport connected and frames queued, and sent nothing
\* because the clock is not synchronized
C1_Witness ==
    /\ PollRan
    /\ wsState = "connected"
    /\ baseTimestamp = 0
    /\ Len(sendQueue) >= 2
    /\ sent = <<>>

(* C2 (as stated): while the session transport is not connected nothing is   *)
(* sent, the queued frames stay queued, and an event handed to sendMessage  *)
(* is queued too.                                                           *)
C2_Original ==
    [][/\ wsState' # "connected" => sent' = <<>> /\ Extends(sendQueue', sendQueue)
       /\ op' = "sendEvent" => Len(sendQueue') = Len(sendQueue) + 1]_vars

(* C2 (amended): while the session transport is not connected nothing is     *)
(* sent and the outbound queue keeps its frames, in order, followed by      *)
(* every response pushed meanwhile; an event handed to sendMessage is       *)
(* queued when the transport is connected and discarded when it is not.     *)
C2_DisconnectedHoldsQueueDropsEvents ==
    [][/\ wsState' # "connected" =>
            sent' = <<>> /\ sendQueue' = sendQueue \o Pushed(enqueued')
       /\ op' = "sendEvent" =>
            IF wsState = "connected"
            THEN Len(enqueued') = 1 /\ sendQueue' = sendQueue \o Pushed(enqueued')
            ELSE enqueued' = <<>> /\ sendQueue' = sendQueue]_vars

\* the transport is down and the clock synchronized: a response is held in the
\* queue, and an event has just been discarded
C2_Witness ==
    /\ op = "sendEvent"
    /\ wsState # "connected"
    /\ baseTimestamp # 0
    /\ enqueued = <<>>
    /\ Len(sendQueue) >= 1

(* C3: a poll that ends connected and synchronized hands the frames that     *)
(* were queued before it to the transports in the order they were queued,   *)
(* then the responses it pushed itself, and leaves the outbound queue       *)
(* empty; so it does in the poll that processes the first synchronizing     *)
(* frame.                                                                   *)
C3_BacklogFlushesInOrder ==
    [][(op' = "handle" /\ _begin /\ baseTimestamp' # 0 /\ wsState' = "connected") =>
            /\ sendQueue' = <<>>
            /\ [i \in 1..Len(sent') |-> Unstamped(sent'[i])]
                    = sendQueue \o Pushed(enqueued')]_vars

\* the poll that synchronized the clock has flushed two frames queued before it
C3_Witness ==
    /\ PollRan
    /\ ~wasSynchronized
    /\ baseTimestamp # 0
    /\ wsState = "connected"
    /\ enqueued = <<>>
    /\ Len(sent) >= 2
    /\ sendQueue = <<>>

\* the frame passed the signature gate and is a request
TrustedRequest(f) ==
    /\ \/ f.prefix /\ f.length <= TimestampFrameMaxLen
       \/ f.hmac = calculateSignature(signingKey, f.payload)
    /\ f.payload.type = "request"

\* the frame carries the MAC of its payload under the stored secret and is a request
CorrectlySignedRequest(f) ==
    /\ ~(f.prefix /\ f.length <= TimestampFrameMaxLen)
    /\ f.hmac = calculateSignature(signingKey, f.payload)
    /\ f.payload.type = "request"

(* C4: a handler is invoked and a response is pushed only by a poll, and     *)
(* only for a frame of its batch that passed the signature gate and has     *)
(* type "request"; a frame with another signature, unparsable text and a    *)
(* frame of another type invoke nothing and push nothing.                   *)
C4_OnlyTrustedRequestsDispatched ==
    /\ \A i \in 1..Len(invoked) :
        /\ op = "handle"
        /\ invoked[i].frame \in 1..Len(received)
        /\ TrustedRequest(received[invoked[i].frame])
    /\ \A i \in 1..Len(enqueued) :
        enqueued[i].msg.type = "response" =>
            /\ op = "handle"
            /\ enqueued[i].frame \in 1..Len(received)
            /\ TrustedRequest(received[enqueued[i].frame])

\* a poll took a request signed with another secret and a signed response off
\* the queue, with the request's device registered: no handler ran, nothing was pushed
C4_Witness ==
    /\ PollRan
    /\ Len(received) = 2
    /\ received[1].payload.type = "request"
    /\ received[1].hmac = calculateSignature("forged", received[1].payload)
    /\ received[2].payload.type = "response"
    /\ \E i \in 1..Len(devices) : devices[i] = received[1].payload.deviceId
    /\ invoked = <<>>
    /\ enqueued = <<>>
    /\ sendQueue = <<>>

(* C5: a poll pushes exactly one response for every correctly signed request *)
(* of its batch, whatever the handlers return, and each is appended to the  *)
(* outbound queue (it is sent in this poll or queued behind the earlier     *)
(* frames); when no registered device has the request's deviceId the        *)
(* response carries success = false and no handler was invoked for it.      *)
C5_EveryRequestAnswered ==
    [][op' = "handle" =>
        /\ [i \in 1..Len(sent') |-> Unstamped(sent'[i])] \o sendQueue'
                = sendQueue \o Pushed(enqueued')
        /\ \A n \in 1..Len(received') :
            CorrectlySignedRequest(received'[n]) =>
                LET answers == {i \in 1..Len(enqueued') : enqueued'[i].frame = n}
                    matched == \E d \in 1..Len(devices) :
                                    devices[d] = received'[n].payload.deviceId
                IN  /\ Cardinality(answers) = 1
                    /\ \A i \in answers :
                        /\ enqueued'[i].msg.type = "response"
                        /\ ~matched => enqueued'[i].msg.success = FALSE
                    /\ ~matched => \A j \in 1..Len(invoked') : invoked'[j].frame # n]_vars

\* a poll answered a correctly signed request for a device id that is not
\* registered: one response with success = false, no handler invoked
C5_Witness ==
    /\ PollRan
    /\ Len(received) = 1
    /\ CorrectlySignedRequest(received[1])
    /\ devices # <<>>
    /\ \A d \in 1..Len(devices) : devices[d] # received[1].payload.deviceId
    /\ Len(enqueued) = 1
    /\ enqueued[1].msg.success = FALSE
    /\ invoked = <<>>

\* the operation changed nothing and called nothing
NoOp ==
    /\ UNCHANGED <<devices, socketAuthToken, signingKey, _begin, wsState, udpBegun,
                   receiveQueue, sendQueue, baseTimestamp, responseMessageStr, millis>>
    /\ received' = <<>> /\ accepted' = <<>> /\ wsCalls' = <<>> /\ sent' = <<>>
    /\ invoked' = <<>> /\ enqueued' = <<>>

(* C6: a poll that calls connect() while the registry holds no device with   *)
(* a valid id makes no begin call on the session transport and leaves the   *)
(* enabled flag false; a poll of a disabled engine changes nothing and      *)
(* calls nothing.                                                           *)
C6_NoValidDeviceDisables ==
    [][/\ (op' = "handle" /\ _begin /\ wsState # "connected"
                /\ SelectSeq(devices, isValid) = <<>>) =>
            /\ ~_begin'
            /\ \A i \in 1..Len(wsCalls') : wsCalls'[i].call # "begin"
       /\ (op' = "handle" /\ ~_begin) => NoOp]_vars

\* a poll of an enabled engine whose registry holds only devices with an
\* invalid id: the transport was polled but never begun, and the engine is disabled
C6_Witness ==
    /\ op = "handle"
    /\ wsCalls = <<[call |-> "handle", deviceList |-> <<>>]>>
    /\ devices # <<>>
    /\ ~_begin
    /\ wsState = "idle"

(* C7: after the stop() and connect() of reconnect() the engine is enabled,  *)
(* so the next polls process the queues again.                              *)
C7_ReconnectLeavesEngineEnabled ==
    (op = "getDeviceInstance" /\ Len(wsCalls) = 2) => _begin

(* C8: the registry accessor leaves everything alone for a known id; for an  *)
(* unknown id it registers the device and, when the session is connected,   *)
(* calls the transport's stop and then its begin, with the list of the      *)
(* earlier valid ids followed by the new id if that is valid; when the      *)
(* session is not connected it calls neither.                               *)
C8_LazyRegistrationReconnects ==
    [][op' = "getDeviceInstance" =>
        IF devices' = devices
        THEN wsCalls' = <<>> /\ wsState' = wsState /\ _begin' = _begin
        ELSE LET new == devices'[Len(devices')]
             IN  /\ devices' = Append(devices, new)
                 /\ IF wsState = "connected"
                    THEN wsCalls' =
                            <<[call |-> "stop", deviceList |-> <<>>],
                              [call |-> "begin",
                               deviceList |-> SelectSeq(devices, isValid)
                                    \o (IF isValid(new) THEN <<new>> ELSE <<>>)]>>
                    ELSE wsCalls' = <<>>]_vars

\* a second valid id was looked up while connected: stop, then begin with both ids
C8_Witness ==
    /\ op = "getDeviceInstance"
    /\ Len(wsCalls) = 2
    /\ wsCalls[1].call = "stop"
    /\ wsCalls[2].call = "begin"
    /\ Len(wsCalls[2].deviceList) = 2
    /\ wsCalls[2].deviceList[2] = devices[Len(devices)]

(* C9 (as stated): right after stop() only begin() enables the engine again. *)
C9_Original ==
    [][op = "stop" => (_begin' => op' = "begin")]_vars

(* C9 (amended): stop() leaves both queues as they are and disables the      *)
(* engine; a poll of a disabled engine takes no frame, sends nothing and    *)
(* calls no transport; and the engine is enabled again only by begin() with *)
(* valid credentials or by registering a device with a valid id while valid *)
(* credentials are stored.                                                  *)
C9_StopKeepsQueuesUntilReenabled ==
    [][/\ op' = "stop" =>
            receiveQueue' = receiveQueue /\ sendQueue' = sendQueue /\ ~_begin'
       /\ (op' = "handle" /\ ~_begin) => NoOp
       /\ (~_begin /\ _begin') =>
            \/ op' = "begin" /\ isValid(socketAuthToken') /\ isValid(signingKey')
            \/ /\ op' \in {"add", "getDeviceInstance"}
               /\ Len(devices') = Len(devices) + 1
               /\ isValid(devices'[Len(devices')])
               /\ isValid(socketAuthToken) /\ isValid(signingKey)]_vars

\* stop() was called with a frame in each queue
C9_Witness ==
    /\ op = "stop"
    /\ ~_begin
    /\ receiveQueue # <<>>
    /\ sendQueue # <<>>

(* C10: right after a begin() that found a credential invalid, only a begin() *)
(* enables the engine again.                                                *)
C10_InvalidBeginStaysDisabled ==
    [][(op = "begin" /\ ~_begin) => (_begin' => op' = "begin")]_vars

\* the frames of a queue that carry the interface tag of a transport
TaggedFor(q, transport) ==
    LET mine(m) == transportOf(m.iface) = transport
    IN  SelectSeq(q, mine)

\* the frames a transport was handed, before the send pass stamped and signed them
HandedTo(out, transport) ==
    LET mine(m) == m.to = transport
        got == SelectSeq(out, mine)
    IN  [i \in 1..Len(got) |-> Unstamped(got[i])]

(* C11: a response carries the interface tag of the request it answers, so   *)
(* a request from the discovery channel is answered on the discovery        *)
(* transport and one from the session channel on the session transport; an  *)
(* event carries the tag of the session transport; and a poll that sends    *)
(* hands each transport exactly the queued frames tagged for it, in the     *)
(* order they were queued.                                                  *)
C11_RoutedByOriginInOrder ==
    [][/\ \A i \in 1..Len(enqueued') :
            IF enqueued'[i].msg.type = "response"
            THEN enqueued'[i].iface = received'[enqueued'[i].frame].iface
            ELSE enqueued'[i].iface = IF_WEBSOCKET
       /\ sent' # <<>> =>
            \A t \in {"_websocketListener", "_udpListener"} :
                HandedTo(sent', t) = TaggedFor(sendQueue \o Pushed(enqueued'), t)
       /\ \A i \in 1..Len(sent') : sent'[i].to \in {"_websocketListener", "_udpListener"}]_vars

\* one poll answered two requests of the session channel and one of the
\* discovery channel between them
C11_Witness ==
    /\ PollRan
    /\ Len(sent) = 3
    /\ sent[1].to = "_websocketListener"
    /\ sent[2].to = "_udpListener"
    /\ sent[3].to = "_websocketListener"
    /\ sent[1].msg # sent[3].msg
    /\ Len(received) = 3
    /\ received[2].iface = IF_UDP

(* C12: every response pushed by a poll carries the replyToken, the deviceId *)
(* and the action of the request frame it answers, whether a device had the *)
(* request's id or not and whether its handler returned true or false.      *)
C12_ResponseEchoesRequest ==
    \A i \in 1..Len(enqueued) :
        enqueued[i].msg.type = "response" =>
            LET request == received[enqueued[i].frame].payload
            IN  /\ enqueued[i].msg.replyToken = request.replyToken
                /\ enqueued[i].msg.deviceId = request.deviceId
                /\ enqueued[i].msg.action = request.action

\* one poll answered two requests with different tokens, the first handled
\* with success and the second one not
C12_Witness ==
    /\ PollRan
    /\ Len(enqueued) = 2
    /\ enqueued[1].msg.success
    /\ ~enqueued[2].msg.success
    /\ enqueued[1].msg.replyToken # enqueued[2].msg.replyToken
    /\ enqueued[1].msg.replyToken = received[enqueued[1].frame].payload.replyToken
    /\ enqueued[2].msg.replyToken = received[enqueued[2].frame].payload.replyToken

\* getTimestamp() in the current state
Now == getTimestamp([baseTimestamp |-> baseTimestamp], millis)

\* the frame is {"timestamp":T} with T not 0: the literal, digits, the closing
\* brace, at most 26 bytes, and no signature
IsTimestampFrame(f) ==
    /\ f.prefix /\ f.digits /\ f.length <= TimestampFrameMaxLen
    /\ f.hmac = NoSignature
    /\ f.timestamp # 0

(* C13: when the last frame a poll processes is the frame {"timestamp":T},   *)
(* which carries no signature, getTimestamp() is T right after it; and as   *)
(* long as baseTimestamp is not set again, getTimestamp() grows by the      *)
(* whole seconds of uptime gained, in unsigned arithmetic: so it is T plus  *)
(* the whole seconds of uptime gained since the frame was processed.        *)
C13_TimestampFrameSetsClock ==
    [][/\ (op' = "handle" /\ received' # <<>>
                /\ IsTimestampFrame(received'[Len(received')])) =>
            Now' = received'[Len(received')].timestamp
       /\ baseTimestamp' = baseTimestamp =>
            Now' = (Now + (millis' \div 1000) - (millis \div 1000)) % ULongMax]_vars

\* a timestamp frame was processed when the uptime in seconds was already
\* larger than its T: baseTimestamp has wrapped around and getTimestamp() is T
C13_Witness ==
    /\ PollRan
    /\ received # <<>>
    /\ IsTimestampFrame(received[Len(received)])
    /\ millis \div 1000 > received[Len(received)].timestamp
    /\ baseTimestamp > received[Len(received)].timestamp
    /\ Now = received[Len(received)].timestamp

\* the frame carries the MAC of its payload under the stored secret
MacMatches(f) == f.hmac = calculateSignature(signingKey, f.payload)

(* C14 (as stated): a frame gets past the gate without a matching MAC only   *)
(* if it is the literal prefix followed by digits and the closing brace, at *)
(* most 26 bytes long.                                                      *)
C14_Original ==
    \A n \in 1..Len(received) :
        accepted[n] =>
            \/ received[n].prefix /\ received[n].digits
                    /\ received[n].length <= TimestampFrameMaxLen
            \/ MacMatches(received[n])

(* C14 (amended): a frame gets past the gate without a matching MAC exactly  *)
(* when it starts with the literal prefix and is at most 26 bytes long,     *)
(* whatever follows the prefix; every other frame, one with the prefix and  *)
(* more than 26 bytes included, gets past the gate exactly when it carries  *)
(* the MAC of its payload.                                                  *)
C14_BypassIsPrefixAndLength ==
    /\ Len(accepted) = Len(received)
    /\ \A n \in 1..Len(received) :
        accepted[n] <=>
            \/ received[n].prefix /\ received[n].length <= TimestampFrameMaxLen
            \/ MacMatches(received[n])

\* one poll took two unsigned frames with the prefix and other content than
\* digits: the one of 26 bytes got past the gate, the one of 27 bytes did not
C14_Witness ==
    /\ PollRan
    /\ Len(received) = 2
    /\ received[1].prefix /\ ~received[1].digits
    /\ received[1].length = TimestampFrameMaxLen
    /\ accepted[1]
    /\ received[2].prefix /\ ~received[2].digits
    /\ received[2].length = TimestampFrameMaxLen + 1
    /\ ~accepted[2]
    /\ ~MacMatches(received[1])

\* the frame carries a time that extractTimestamp() reads
CarriesTime(f) == f.timestamp # 0 \/ f.payload.createdAt # 0

(* C15 (as stated): baseTimestamp is 0 at the start, and a step changes it   *)
(* only if it is a poll that processed a frame carrying a time that either  *)
(* has a matching MAC or is the literal prefix, digits and the closing      *)
(* brace in at most 26 bytes.                                               *)
C15_Original ==
    [][/\ op = "init" => baseTimestamp = 0
       /\ baseTimestamp' # baseTimestamp =>
            /\ op' = "handle"
            /\ \E n \in 1..Len(received') :
                /\ CarriesTime(received'[n])
                /\ \/ MacMatches(received'[n])
                   \/ received'[n].prefix /\ received'[n].digits
                        /\ received'[n].length <= TimestampFrameMaxLen]_vars

(* C15 (amended): baseTimestamp is 0 at the start, and a step changes it     *)
(* only if it is a poll that processed a frame carrying a time that either  *)
(* has a matching MAC or starts with the literal prefix and has at most 26  *)
(* bytes, whatever follows the prefix; a poll whose frames all fail the     *)
(* gate, and every other operation, leaves it as it is.                     *)
C15_OnlyAcceptedFramesSetClock ==
    [][/\ op = "init" => baseTimestamp = 0
       /\ baseTimestamp' # baseTimestamp =>
            /\ op' = "handle"
            /\ \E n \in 1..Len(received') :
                /\ CarriesTime(received'[n])
                /\ accepted'[n]
                /\ \/ MacMatches(received'[n])
                   \/ received'[n].prefix
                        /\ received'[n].length <= TimestampFrameMaxLen
                /\ baseTimestamp' = ((IF received'[n].timestamp # 0
                                      THEN received'[n].timestamp
                                      ELSE received'[n].payload.createdAt)
                                     - (millis \div 1000)) % ULongMax]_vars

\* one poll took a request with a time and the signature of another secret,
\* which left the clock unsynchronized, and then an unsigned frame of 26 bytes
\* with the prefix and other content than digits, which set it
C15_Witness ==
    /\ PollRan
    /\ ~wasSynchronized
    /\ baseTimestamp # 0
    /\ Len(received) = 2
    /\ CarriesTime(received[1]) /\ ~accepted[1]
    /\ received[1].hmac # NoSignature
    /\ received[2].prefix /\ ~received[2].digits /\ accepted[2]

(* C16 (as stated): right after add registered a device with a valid id,     *)
(* getDevice with that id returns the record add just pushed, whatever was  *)
(* registered before.                                                       *)
C16_Original ==
    [][(op' = "add" /\ isValid(devices'[Len(devices')])) =>
            getDevice([devices |-> devices'], devices'[Len(devices')])
                = Len(devices')]_vars

(* C16 (amended): right after add registered a device with a valid id,       *)
(* getDevice with that id returns the first record registered with that    *)
(* id: the record add just pushed when the id was not registered before,    *)
(* and the earlier record when it was.                                      *)
C16_GetReturnsFirstRegistered ==
    [][(op' = "add" /\ isValid(devices'[Len(devices')])) =>
            LET id == devices'[Len(devices')]
                found == getDevice([devices |-> devices'], id)
            IN  /\ devices' = Append(devices, id)
                /\ found \in 1..Len(devices')
                /\ devices'[found] = id
                /\ \A j \in 1..(found - 1) : devices'[j] # id
                /\ found = Len(devices')
                        <=> \A j \in 1..Len(devices) : devices[j] # id]_vars

\* a device with a valid id was added after a device with another id, and
\* getDevice returns the record just pushed
C16_Witness ==
    /\ op = "add"
    /\ Len(devices) = 2
    /\ isValid(devices[2])
    /\ devices[1] # devices[2]
    /\ getDevice([devices |-> devices], devices[2]) = 2

(* C17 (as stated): every call of add registers a record, also for an        *)
(* invalid id; and the device list of every begin call on the session       *)
(* transport is the list of the registered valid ids, in registration      *)
(* order.                                                                   *)
C17_Original ==
    [][/\ op' \in {"add", "addObject"} => Len(devices') = Len(devices) + 1
       /\ \A i \in 1..Len(wsCalls') :
            wsCalls'[i].call = "begin" =>
                wsCalls'[i].deviceList = SelectSeq(devices', isValid)]_vars

(* C17 (amended): add<DeviceType>(deviceId) registers a record for every id, *)
(* valid or not, and getDevice finds it; the deprecated overloads that take *)
(* a device object register it only if its id is valid; and the device     *)
(* list of every begin call on the session transport is the list of the    *)
(* registered valid ids, in registration order.                             *)
C17_InvalidStoredButNotAdvertised ==
    [][/\ op' = "add" =>
            /\ Len(devices') = Len(devices) + 1
            /\ SubSeq(devices', 1, Len(devices)) = devices
            /\ getDevice([devices |-> devices'], devices'[Len(devices')]) # 0
       /\ op' = "addObject" =>
            \/ devices' = devices
            \/ /\ Len(devices') = Len(devices) + 1
               /\ SubSeq(devices', 1, Len(devices)) = devices
               /\ isValid(devices'[Len(devices')])
       /\ \A i \in 1..Len(wsCalls') :
            wsCalls'[i].call = "begin" =>
                /\ wsCalls'[i].deviceList = SelectSeq(devices', isValid)
                /\ \A j \in 1..Len(wsCalls'[i].deviceList) :
                        isValid(wsCalls'[i].deviceList[j])]_vars

\* a poll connected with three devices registered, the second with an invalid
\* id: the list is the first and the third id
C17_Witness ==
    /\ PollRan
    /\ Len(devices) = 3
    /\ isValid(devices[1]) /\ ~isValid(devices[2]) /\ isValid(devices[3])
    /\ devices[1] # devices[3]
    /\ wsCalls[1].call = "begin"
    /\ wsCalls[1].deviceList = <<devices[1], devices[3]>>

\* the secrets and payloads the MAC is tried on
Secrets == {ValidAppSecret, "forged"}
Payloads == {RequestPayload("d1", c) : c \in {0, MaxTimestamp}} \cup {NullPayload}

\* the comparison of the receive pass: the MAC recomputed over the payload
\* equals the signature carried
Verifies(key, signature, payload) == calculateSignature(key, payload) = signature

C19_AdjustInvokesAdjustCallback ==
    [][(op' = "handleRangeController" /\ rangeRequest'.action = "adjustRangeValue"
            /\ rangeRequest'.instance = "") =>
            IF adjustRangeValueCallback \in Callbacks
            THEN /\ Len(called') = 1
                 /\ called'[1].cb = adjustRangeValueCallback
                 /\ called'[1].value = rangeRequest'.value
            ELSE called' = <<>> /\ returned' = FALSE]_vars

(* C20: handleRangeController, given an adjustRangeValue request for an      *)
(* instance I, calls the callback registered with onAdjustRangeValue(I, cb) *)
(* once, with the request's rangeValueDelta, whenever one is registered for *)
(* I, whatever is registered with onRangeValue; when none is registered for *)
(* I it calls nothing, returns false and leaves the callback tables as they *)
(* are.                                                                     *)
C20_InstanceAdjustInvokesItsCallback ==
    [][(op' = "handleRangeController" /\ rangeRequest'.action = "adjustRangeValue"
            /\ rangeRequest'.instance # "") =>
            LET entry == genericAdjustRangeValueCallback[rangeRequest'.instance]
            IN  IF entry \in CallbackEntries
                THEN /\ Len(called') = 1
                     /\ called'[1].cb = entry.cb
                     /\ called'[1].instance = rangeRequest'.instance
                     /\ called'[1].value = rangeRequest'.value
                ELSE /\ called' = <<>>
                     /\ returned' = FALSE
                     /\ UNCHANGED <<setRangeValueCallback, genericSetRangeValueCallback,
                                    adjustRangeValueCallback,
                                    genericAdjustRangeValueCallback>>]_vars

(* C21: for one request frame a poll invokes the handler of one record only, *)
(* the first record of the registry whose id is the request's deviceId, and *)
(* invokes it once, also when several records have that id and whatever     *)
(* that handler returns.                                                    *)
C21_FirstMatchInvokedOnce ==
    op = "handle" =>
        \A n \in 1..Len(received) :
            LET calls == {i \in 1..Len(invoked) : invoked[i].frame = n}
            IN  /\ Cardinality(calls) <= 1
                /\ \A i \in calls :
                    /\ devices[invoked[i].device] = received[n].payload.deviceId
                    /\ \A j \in 1..(invoked[i].device - 1) :
                            devices[j] # received[n].payload.deviceId

\* the handler invocations that the poll made for the n-th frame of its batch
CallsFor(n) == {i \in 1..Len(invoked) : invoked[i].frame = n}

\* the last of the handler invocations for the n-th frame
LastCallFor(n) == invoked[CHOOSE i \in CallsFor(n) : \A j \in CallsFor(n) : j <= i]

(* C22: when the handler of a request returns failure, the response's message *)
(* is the text that handler passed to setResponseMessage, and the generic     *)
(* fallback when it passed none; a failing request whose handler sets no      *)
(* message gets the generic fallback whatever was processed before it.        *)
C22_FailureMessageIsHandlersOrGeneric ==
    op = "handle" =>
        \A k \in 1..Len(enqueued) :
            LET n == enqueued[k].frame
            IN  (CallsFor(n) # {} /\ ~LastCallFor(n).success) =>
                    enqueued[k].msg.message =
                        IF LastCallFor(n).message # ""
                        THEN LastCallFor(n).message
                        ELSE GenericError

(* C28: a text passed to setResponseMessage while one request is processed   *)
(* appears in the response of that request or in none: every response that  *)
(* carries a handler's text answers a request whose own handler passed it,  *)
(* also when an earlier handler set a text and returned success.            *)
C28_MessageStaysWithItsRequest ==
    op = "handle" =>
        \A k \in 1..Len(enqueued) :
            enqueued[k].msg.message \notin {"OK", GenericError} =>
                \E i \in CallsFor(enqueued[k].frame) :
                    invoked[i].message = enqueued[k].msg.message

\* the time that a frame sets the clock to: its top-level timestamp when that
\* is not zero, else its payload's createdAt when that is not zero, else none
TimeOf(f) ==
    IF f.timestamp # 0 THEN f.timestamp ELSE f.payload.createdAt

\* the base that the frames of a batch leave, from frame n on: every accepted
\* frame with a time replaces it, every other frame leaves it as it is
RECURSIVE BaseAfter(_, _, _, _, _)
BaseAfter(base, frames, acc, ms, n) ==
    IF n > Len(frames)
    THEN base
    ELSE BaseAfter(IF acc[n] /\ TimeOf(frames[n]) # 0
                   THEN (TimeOf(frames[n]) - (ms \div 1000)) % ULongMax
                   ELSE base,
                   frames, acc, ms, n + 1)

(* C23: every frame that a poll accepts recomputes BaseTimestamp from its   *)
(* top-level timestamp when that is not zero, otherwise from its payload's  *)
(* createdAt when that is not zero, and leaves it unchanged when both are   *)
(* zero or absent; so the base after the poll is what the batch's accepted  *)
(* frames, taken in order, make of the base before it.                      *)
C23_TimestampBeforeCreatedAt ==
    [][op' = "handle" =>
        baseTimestamp' = BaseAfter(baseTimestamp, received', accepted', millis, 1)]_vars

\* a poll accepted a frame with a timestamp next to a different createdAt and
\* took the timestamp; before it the clock had been set from a createdAt
C23_Witness ==
    /\ op = "handle"
    /\ Len(received) = 2
    /\ accepted = <<TRUE, TRUE>>
    /\ received[1].timestamp = 0 /\ received[1].payload.createdAt # 0
    /\ received[2].timestamp # 0 /\ received[2].payload.createdAt # 0
    /\ received[2].timestamp # received[2].payload.createdAt
    /\ baseTimestamp = (received[2].timestamp - (millis \div 1000)) % ULongMax
    /\ baseTimestamp # (received[2].payload.createdAt - (millis \div 1000)) % ULongMax

(* C24: a poll processes its inbound frames before it sends: when it ends   *)
(* connected and synchronized, by a frame of its own batch or earlier, the  *)
(* response to every request of the batch has been handed to a transport in *)
(* that same poll; and whatever it sent, it sent after the whole batch was  *)
(* processed, with the inbound queue empty and stamped by the clock as the  *)
(* batch left it.                                                           *)
C24_InboundBeforeOutbound ==
    [][op' = "handle" =>
        /\ sent' # <<>> =>
            /\ received' = receiveQueue /\ receiveQueue' = <<>>
            /\ \A j \in 1..Len(sent') :
                sent'[j].msg.createdAt = (baseTimestamp' + (millis \div 1000)) % ULongMax
        /\ (wsState' = "connected" /\ baseTimestamp' # 0) =>
            \A k \in 1..Len(enqueued') :
                \E j \in 1..Len(sent') :
                    /\ Unstamped(sent'[j]) = Pushed(enqueued')[k]
                    /\ j > Len(sent') - Len(enqueued')]_vars

\* a poll with an unsynchronized clock received one request with a createdAt,
\* set the clock from it, and sent the response in the same poll
C24_Witness ==
    /\ PollRan
    /\ ~wasSynchronized
    /\ Len(received) = 1
    /\ CorrectlySignedRequest(received[1])
    /\ received[1].payload.createdAt # 0
    /\ baseTimestamp # 0
    /\ Len(enqueued) = 1
    /\ Len(sent) = 1
    /\ sent[1].msg.type = "response"
    /\ sent[1].msg.replyToken = received[1].payload.replyToken

(* C25: the receive pass of a poll ends with the inbound queue empty, and   *)
(* has taken every frame that was queued off the queue once, front first,   *)
(* whether the frame was accepted or rejected by the gate, unparsable, or   *)
(* of a type the engine does not handle.                                    *)
C25_ReceivePassDrainsQueue ==
    [][(op' = "handle" /\ _begin) =>
        /\ receiveQueue' = <<>>
        /\ received' = receiveQueue
        /\ Len(accepted') = Len(receiveQueue)]_vars

\* a poll took two frames off the queue: unparsable text, which the gate
\* rejected, and behind it a signed frame of a type that is not handled
C25_Witness ==
    /\ PollRan
    /\ Len(received) = 2
    /\ accepted = <<FALSE, TRUE>>
    /\ received[1].payload.type = "null"
    /\ received[2].payload.type \notin {"request", "response", "null"}
    /\ receiveQueue = <<>>
    /\ enqueued = <<>>

\* every envelope is built and queued with the placeholder createdAt = 0
BuiltWithPlaceholder ==
    /\ \A k \in 1..Len(enqueued) : enqueued[k].msg.createdAt = 0
    /\ \A k \in 1..Len(sendQueue) : sendQueue[k].msg.createdAt = 0

\* every frame handed to a transport bears the synchronized clock's time of the
\* send pass, and its signature is the MAC of the payload as stamped
StampedThenSigned ==
    \A j \in 1..Len(sent) :
        /\ baseTimestamp # 0
        /\ sent[j].msg.createdAt = Now
        /\ sent[j].hmac = calculateSignature(signingKey, sent[j].msg)
        /\ sent[j].hmac # calculateSignature(signingKey, Unstamped(sent[j]).msg)
                \/ sent[j].msg.createdAt = 0

C27_SynchronizedStaysSynchronized ==
    [][baseTimestamp # 0 => baseTimestamp' # 0]_vars

(* C29: in every reachable state the engine is enabled only if the stored   *)
(* app key and the stored app secret are both valid.                        *)
C29_EnabledOnlyWithValidCredentials ==
    _begin => isValid(socketAuthToken) /\ isValid(signingKey)

\* a device with a valid id has been registered before any valid begin(): the
\* stored credentials are not valid and the engine has stayed disabled
C29_Witness ==
    /\ op = "add"
    /\ devices # <<>>
    /\ isValid(devices[Len(devices)])
    /\ ~isValid(socketAuthToken)
    /\ ~isValid(signingKey)
    /\ ~_begin

====
